---- MODULE Spec2Model ----
(***************************************************************************)
(* Model of the wildfire-perimeters time-range selector                    *)
(* (src/src/components/RangeSlider.tsx) and of the App state it feeds      *)
(* (src/unnamed/part_000).                                                 *)
(*                                                                         *)
(* Numbers.  The component computes with IEEE doubles.  Pixel positions    *)
(* are modelled in fixed point, PxUnit units per pixel; timestamps are     *)
(* modelled in hours since 2024-01-01T00:00Z (every date literal of the    *)
(* source is a UTC midnight).  A JavaScript division whose result is not a *)
(* multiple of the resolution is rounded down to it (\div).                *)
(***************************************************************************)
EXTENDS Integers, Sequences, FiniteSets, TLC

\* ------------------------------------------------------------------ bounds
\* fixed-point resolution of a pixel position (units per pixel)
PxUnit == 100
\* number of pointer presses (mousedown events) explored in one run of Spec
MaxPress == 3
\* number of animation frames explored in one run of Spec
MaxTicks == 1
\* number of pointer presses explored in one run of AutoplaySpec
MaxPressAuto == 1
\* fetches in flight at a time
MaxFetch == 2

\* track widths (px) that getBoundingClientRect().width may report on mount
Widths == {0, 10, 800}
WidthsAuto == Widths \cup {1000}
\* pointer coordinates e.clientX - rect.left (px) a mouse event may carry
Pointers == {-50, 100, 150, 300, 750, 1100}
PointersAuto == Pointers \cup {200}

Px(n) == n * PxUnit

Min(a, b) == IF a < b THEN a ELSE b
Max(a, b) == IF a > b THEN a ELSE b

\* ------------------------------------------------------- program constants
\* new Date('2024-mm-dd').getTime(), as hours since 2024-01-01; the argument
\* is the day of the year 2024 (0 = Jan 1)
Date(dayOfYear) == dayOfYear * 24

absoluteMinDate == Date(215)      \* new Date('2024-08-03')
absoluteMaxDate == Date(273)      \* new Date('2024-09-30')
minDate == absoluteMinDate
maxDate == absoluteMaxDate
totalRange == absoluteMaxDate - absoluteMinDate

initDefaultStartDate == Date(31)    \* new Date('2024-02-01'), useState initializer
initDefaultEndDate == Date(335)     \* new Date('2024-12-01'), useState initializer
defaultStartDate == Date(152)       \* new Date('2024-06-01'), mount effect
defaultEndDate == Date(242)         \* new Date('2024-08-30'), mount effect

\* const [playbackSpeed] = useState(1): no setter is ever used
playbackSpeed == 1
\* const minWidth = 20 (handleMouseMove) and the literal 20 of animate, in px
MIN_WIDTH_PX == 20

minWidth == Px(MIN_WIDTH_PX)

DragTypes == {"start", "end", "selection"}

\* ---------------------------------------------------------- pure functions
\* getPositionFromDate without its clamp (width * percentage)
getPositionFromDateUnclamped(date, width) ==
  (width * (date - minDate)) \div totalRange

\* getPositionFromDate measuring the date from the wrong end of the span
\* ((maxDate - date) / totalRange as percentage)
getPositionFromDateFromMax(date, width) ==
  Max(0, Min((width * (maxDate - date)) \div totalRange, width))

\* getPositionFromDate of the useState initializer and of the mount effect:
\* Math.max(0, Math.min(width * percentage, width))
getPositionFromDate(date, width) ==
  Max(0, Min((width * (date - minDate)) \div totalRange, width))

\* A value returned by getDateFromPosition or passed to onRangeChange: a Date
\* object (isDate) or a bare number of milliseconds.
DateValue(t) == [isDate |-> TRUE, time |-> t]
NumberValue(t) == [isDate |-> FALSE, time |-> t]

\* getDateFromPosition without the offset minDate
\* (new Date(totalRange * percentage))
getDateFromPositionNoOffset(position, width) ==
  IF width = 0
    THEN NumberValue(minDate)
    ELSE DateValue((totalRange * Max(0, Min(position, width))) \div width)

\* getDateFromPosition: returns the NUMBER minDate when the width is 0,
\* otherwise new Date(minDate + totalRange * clamp(position / width, 0, 1)).
getDateFromPosition(position, width) ==
  IF width = 0
    THEN NumberValue(minDate)
    ELSE DateValue(minDate + (totalRange * Max(0, Min(position, width))) \div width)

\* the x of handleMouseMove: Math.max(0, Math.min(e.clientX - rect.left, width))
ClampPointer(px, width) == Max(0, Min(Px(px), width))

\* MouseMoveRange with the selection branch missing its upper clamp
\* (Math.max(0, x - width / 2) in place of the Math.min with width - w)
MouseMoveRangeNoRightClamp(prev, mode, x, width) ==
  IF mode = "start"
    THEN [prev EXCEPT !.start = Min(x, prev.end - minWidth)]
  ELSE IF mode = "end"
    THEN [prev EXCEPT !.end = Max(x, prev.start + minWidth)]
  ELSE LET w == prev.end - prev.start
           s == Max(0, x - (w \div 2))
       IN  [start |-> s, end |-> s + w]

\* the setRange updater of handleMouseMove (lines 179-191): the new range
MouseMoveRange(prev, mode, x, width) ==
  IF mode = "start"
    THEN [prev EXCEPT !.start = Min(x, prev.end - minWidth)]
  ELSE IF mode = "end"
    THEN [prev EXCEPT !.end = Max(x, prev.start + minWidth)]
  ELSE LET w == prev.end - prev.start
           s == Max(0, Min(x - (w \div 2), width - w))
       IN  [start |-> s, end |-> s + w]

Interval(s, e) == [start |-> s, end |-> e]

\* AnimateRange returning the advanced window when it stops playback
\* (return { start: newStart, end: newEnd } in place of return prev)
AnimateRangeAdvanceOnStop(prev, width) ==
  LET increment == (width * playbackSpeed) \div 100
      newEnd == Min(prev.end + increment, width)
      newStart == Min(prev.start + increment, newEnd - Px(20))
  IN  IF newEnd >= width
        THEN [stop |-> TRUE, range |-> [start |-> newStart, end |-> newEnd],
              emit |-> <<>>]
        ELSE [stop |-> FALSE,
              range |-> [start |-> newStart, end |-> newEnd],
              emit |-> <<Interval(getDateFromPosition(newStart, width),
                                  getDateFromPosition(newEnd, width))>>]

\* AnimateRange with the stop test newEnd > width in place of newEnd >= width
AnimateRangeNeverStops(prev, width) ==
  LET increment == (width * playbackSpeed) \div 100
      newEnd == Min(prev.end + increment, width)
      newStart == Min(prev.start + increment, newEnd - Px(20))
  IN  IF newEnd > width
        THEN [stop |-> TRUE, range |-> prev, emit |-> <<>>]
        ELSE [stop |-> FALSE,
              range |-> [start |-> newStart, end |-> newEnd],
              emit |-> <<Interval(getDateFromPosition(newStart, width),
                                  getDateFromPosition(newEnd, width))>>]

\* AnimateRange calling onRangeChange before the stop test, so that the tick
\* it discards emits too
AnimateRangeEmitsOnStop(prev, width) ==
  LET increment == (width * playbackSpeed) \div 100
      newEnd == Min(prev.end + increment, width)
      newStart == Min(prev.start + increment, newEnd - Px(20))
      dateRange1 == Interval(getDateFromPosition(newStart, width),
                             getDateFromPosition(newEnd, width))
  IN  IF newEnd >= width
        THEN [stop |-> TRUE, range |-> prev, emit |-> <<dateRange1>>]
        ELSE [stop |-> FALSE,
              range |-> [start |-> newStart, end |-> newEnd],
              emit |-> <<dateRange1>>]

\* the setRange updater of animate (lines 139-156): whether it stops playback
\* (setIsPlaying(false)), the range it returns and its onRangeChange calls
AnimateRange(prev, width) ==
  LET increment == (width * playbackSpeed) \div 100
      newEnd == Min(prev.end + increment, width)
      newStart == Min(prev.start + increment, newEnd - Px(20))
  IN  IF newEnd >= width
        THEN [stop |-> TRUE, range |-> prev, emit |-> <<>>]
        ELSE [stop |-> FALSE,
              range |-> [start |-> newStart, end |-> newEnd],
              emit |-> <<Interval(getDateFromPosition(newStart, width),
                                  getDateFromPosition(newEnd, width))>>]

\* ResetRange restoring the initial window of the useState initializer
\* ({ start: 0, end: 100 }) in place of the full track
ResetRangeInitial(width) == [start |-> 0, end |-> Px(100)]

\* setRange({ start: 0, end: dimensions.width }) of handleReset
ResetRange(width) == [start |-> 0, end |-> width]

\* the useState initializer of range (lines 70-85)
InitialRange(width) ==
  IF width = 0
    THEN [start |-> 0, end |-> Px(100)]
    ELSE [start |-> getPositionFromDate(initDefaultStartDate, width),
          end |-> getPositionFromDate(initDefaultEndDate, width)]

\* the range set by the mount effect (lines 100-103)
MountRange(width) ==
  [start |-> getPositionFromDate(defaultStartDate, width),
   end |-> getPositionFromDate(defaultEndDate, width)]

\* ------------------------------------------------------------------- state
VARIABLES
  containerRef,    \* RangeSlider: the track element is set (TRUE) or null
  dimensions,      \* RangeSlider: [width], in position units
  range,           \* RangeSlider: [start, end], in position units
  dragging,        \* RangeSlider: "start" | "end" | "selection" | "none" (null)
  isPlaying,       \* RangeSlider: playback flag
  animationFrame,  \* autoplay effect: a requestAnimationFrame callback is pending
  dateRange,       \* App: <<>> (null) or <<interval>>, the last range received
  emitted,         \* the onRangeChange calls made by the last handler, in order
  crashed,         \* an uncaught TypeError has unmounted the component tree
  lastOp,          \* history: the handler that ran last
  lastX,           \* history: pointer coordinate (px) of the last mousemove of
                   \* an undisturbed selection drag
  press,           \* history: pointer coordinate (px) and window at the press
                   \* that began the current selection drag, while no tick or
                   \* reset has disturbed the drag
  presses,         \* history: number of mousedown events so far
  ticks,           \* history: number of animation frames so far
  effectDeps,      \* mount effect: the onRangeChange it last ran with
  showFilters,     \* RangeSlider: whether the filter panel is rendered
  filters,         \* RangeSlider: the attribute filters
  filtersEmitted,  \* the onFiltersChange calls made by the last handler
  probe,           \* the last evaluation of the position/time mapping
  listeners,       \* window: the attached mousemove and mouseup listeners
  unmounted,       \* whether the component has been unmounted
  app,             \* App: features, debouncedFilters, the debounce timeout
                   \* (handler), the fetches in flight and whether one failed,
                   \* the selection (selectedId, lastSelectedId, resetView,
                   \* shouldZoom)
  sidebar,         \* Sidebar: showDetails and the dependencies its effect
                   \* last ran with; EventList: expandedGroups
  evaluation       \* the last evaluation of one of the page's computations
                   \* on a list of features: its name, input and output

vars == <<containerRef, dimensions, range, dragging, isPlaying, animationFrame,
          dateRange, emitted, crashed, lastOp, lastX, press, presses, ticks,
          effectDeps, showFilters, filters, filtersEmitted, probe,
          listeners, unmounted, app, sidebar, evaluation>>

NoPress == [valid |-> FALSE, x |-> 0, range |-> [start |-> 0, end |-> 0]]

\* no position has been mapped yet
NoProbe ==
  [done |-> FALSE, dated |-> FALSE, position |-> 0,
   date |-> [isDate |-> FALSE, time |-> 0], back |-> 0]

\* an optional number: <<>> is undefined, <<n>> is the number n
Undefined == <<>>

\* the null of selectedId and lastSelectedId
Null == "null"
FilterIds == {"farea", "duration", "meanfrp"}
\* useState({}): no attribute has a bound (filters[id]?.min is undefined)
NoFilters == [id \in FilterIds |-> [min |-> Undefined, max |-> Undefined]]

\* App with an inline arrow function as onRangeChange: a new function at every
\* render of App, i.e. whenever dateRange has changed
InlineCallback(appDateRange) == appDateRange

\* App.handleDateRangeChange = useCallback(..., []): the function of the first
\* render at every render of App, whatever its state
handleDateRangeChange(appDateRange) == <<>>

\* the values a filter input can hand to its onChange: empty (undefined) or a
\* number
FilterValues == {Undefined, <<5>>}

\* newFilters with the entry of the attribute rebuilt from the typed bound only
\* ({ [filter.id]: { min: ... } } without the spread of filters[filter.id])
FilterChangeDropsOtherBound(prev, id, bound, value) ==
  [prev EXCEPT ![id] =
     [[min |-> Undefined, max |-> Undefined] EXCEPT ![bound] = value]]

\* newFilters of the onChange of a filter input (lines 383-389, 402-408):
\* { ...filters, [filter.id]: { ...filters[filter.id], [bound]: value } }
FilterChange(prev, id, bound, value) ==
  [prev EXCEPT ![id] = [@ EXCEPT ![bound] = value]]

\* the listeners on window: each attached mousemove listener is a
\* handleMouseMove closure, named by the drag mode it captured; handleMouseUp
\* is one function for all renders (useCallback(..., [])), so that it is
\* attached or not
NoListeners == [mousemove |-> <<>>, mouseup |-> FALSE]

\* removeEventListener('mousemove', f) for the closure f that captured mode
RemoveListener(fs, mode) ==
  IF \E i \in DOMAIN fs : fs[i] = mode
    THEN LET i == CHOOSE j \in DOMAIN fs : fs[j] = mode
         IN  SubSeq(fs, 1, i - 1) \o SubSeq(fs, i + 1, Len(fs))
    ELSE fs

\* a cleanup that removes the mousemove listener only
ListenerCleanupMoveOnly(ls, mode) ==
  IF mode = "none"
    THEN ls
    ELSE [ls EXCEPT !.mousemove = RemoveListener(ls.mousemove, mode)]

\* the cleanup of the listener effect (lines 222-225) of the render whose
\* dragging was mode; the effect returns no cleanup when mode is null
ListenerCleanup(ls, mode) ==
  IF mode = "none"
    THEN ls
    ELSE [mousemove |-> RemoveListener(ls.mousemove, mode), mouseup |-> FALSE]

\* the listener effect without its cleanup function
ListenerEffectNoCleanup(ls, old, new) ==
  IF new = old
    THEN ls
  ELSE IF new = "none"
    THEN ls
    ELSE [mousemove |-> Append(ls.mousemove, new), mouseup |-> TRUE]

\* the listener effect (lines 218-227) after a render in which dragging went
\* from old to new: it does not run when its dependencies are unchanged;
\* otherwise the cleanup of its last run runs, and then the effect attaches
\* the handlers of this render when dragging is set
ListenerEffect(ls, old, new) ==
  IF new = old
    THEN ls
  ELSE IF new = "none"
    THEN ListenerCleanup(ls, old)
    ELSE [mousemove |-> Append(ListenerCleanup(ls, old).mousemove, new),
          mouseup |-> TRUE]

\* the features of /fire_perimeters.geojson after the transformation of
\* fetchData, by the properties that the filters test
Dataset ==
  << [id |-> "a", fireid |-> 1, t |-> minDate,
      farea |-> 3, duration |-> 5, meanfrp |-> 8],
     [id |-> "b", fireid |-> 1, t |-> defaultEndDate,
      farea |-> 5, duration |-> 8, meanfrp |-> 3],
     [id |-> "c", fireid |-> 2, t |-> maxDate,
      farea |-> 8, duration |-> 3, meanfrp |-> 5] >>

\* BelowMin dropping the feature on the bound as well (farea <= min)
BelowMinOrEqual(bound, v) == bound # Undefined /\ v <= bound[1]

\* one test of the filter of fetchData (lines 158-163): the feature is dropped
\* when the bound is set and the property lies beyond it
BelowMin(bound, v) == bound # Undefined /\ v < bound[1]
AboveMax(bound, v) == bound # Undefined /\ v > bound[1]

\* transformedFeatures.filter(...) of fetchData (lines 157-165)
FilterFeatures(features, f) ==
  SelectSeq(features, LAMBDA feature :
    /\ ~BelowMin(f["farea"].min, feature.farea)
    /\ ~AboveMax(f["farea"].max, feature.farea)
    /\ ~BelowMin(f["duration"].min, feature.duration)
    /\ ~AboveMax(f["duration"].max, feature.duration)
    /\ ~BelowMin(f["meanfrp"].min, feature.meanfrp)
    /\ ~AboveMax(f["meanfrp"].max, feature.meanfrp))

\* setTimeout(() => setDebouncedValue(value), delay) of useDebounce for a
\* filters object made by a filter input, after clearTimeout of the last one
SetTimeout(value) == <<[value |-> value, isNew |-> TRUE]>>

\* the effect of useDebounce setting the new timeout next to the pending ones:
\* no clearTimeout in its cleanup
DebounceNoClear(pending, value) == pending \o SetTimeout(value)

\* the effect of useDebounce for a new value (lines 12-20): the cleanup of the
\* last run clears its timeout, then the timeout for the new value is set
Debounce(pending, value) == SetTimeout(value)

\* App after its first commit: no features, the timeout of useDebounce
\* pending for the initial filters object (which is debouncedFilters itself)
\* and the fetch of the first run of the fetch effect in flight, with its
\* loading toast (toastIds: the toast of each fetch in flight; visible: the
\* toasts not dismissed; activeToastId: 0 for undefined)
InitialApp ==
  [features |-> <<>>,
   load |-> 0,
   debouncedFilters |-> NoFilters,
   handler |-> <<[value |-> NoFilters, isNew |-> FALSE]>>,
   fetches |-> <<NoFilters>>,
   toastIds |-> <<1>>,
   visible |-> {1},
   activeToastId |-> 1,
   failed |-> FALSE,
   selectedId |-> Null,
   lastSelectedId |-> Null,
   resetView |-> FALSE,
   shouldZoom |-> FALSE]

\* handleSelectFeature (App, lines 191-196)
SelectFeature(a, id, fromSidebar) ==
  [a EXCEPT !.resetView = FALSE,
            !.shouldZoom = fromSidebar,
            !.selectedId = id,
            !.lastSelectedId = id]

\* Back deselecting the feature: setSelectedId(null)
BackDeselects(a) ==
  [a EXCEPT !.selectedId = Null,
            !.shouldZoom = FALSE]

\* handleBack (App, lines 186-189)
Back(a) ==
  [a EXCEPT !.selectedId = a.lastSelectedId,
            !.shouldZoom = FALSE]

\* handleResetView (App, lines 179-184)
ResetView(a) ==
  [a EXCEPT !.selectedId = Null,
            !.lastSelectedId = Null,
            !.resetView = TRUE,
            !.shouldZoom = FALSE]

\* filteredFeatures keeping the features before the end of the range only
\* (date < dateRange.end)
filteredFeaturesBeforeEnd(features, appDateRange) ==
  IF appDateRange # <<>>
    THEN SelectSeq(features, LAMBDA f :
           /\ f.t >= appDateRange[1].start.time
           /\ f.t < appDateRange[1].end.time)
    ELSE features

\* filteredFeatures (App, lines 200-205): the features of the emitted date
\* range, both ends included, or all of them while no range has been emitted
filteredFeatures(features, appDateRange) ==
  IF appDateRange # <<>>
    THEN SelectSeq(features, LAMBDA f :
           /\ f.t >= appDateRange[1].start.time
           /\ f.t <= appDateRange[1].end.time)
    ELSE features

\* the features App passes to its children (lines 218-236): the filtered
\* ones to MapView and to the Sidebar, all of them to the RangeSlider
Props(a, appDateRange) ==
  [MapView |-> filteredFeatures(a.features, appDateRange),
   RangeSlider |-> a.features,
   Sidebar |-> filteredFeatures(a.features, appDateRange)]

\* the selectedId App passes to the Sidebar (line 234):
\* selectedId || lastSelectedId
selectedIdProp(a) ==
  IF a.selectedId # Null THEN a.selectedId ELSE a.lastSelectedId

\* the fireids of a list of features, the keys of groupedEvents
\* (EventList, lines 21-30)
FireIds(features) == {features[i].fireid : i \in DOMAIN features}

\* the features of one key of groupedEvents, in the order of the list
groupedEvents(features, fireId) ==
  SelectSeq(features, LAMBDA f : f.fireid = fireId)

\* selectedFeature of the Sidebar (index.tsx, line 15): features.find(...).
\* A feature object is told from the object of the same id of another load by
\* the load that created it.
selectedFeature(a, appDateRange) ==
  LET features == filteredFeatures(a.features, appDateRange)
      found == SelectSeq(features, LAMBDA f : f.id = selectedIdProp(a))
  IN  IF found = <<>> THEN <<>>
      ELSE <<[id |-> found[1].id, load |-> a.load]>>

\* the Sidebar and its EventList after their first commit: the list is
\* rendered, no group is expanded
NoListDeps == [selectedId |-> Null, load |-> 0]
InitialSidebar ==
  [showDetails |-> FALSE,
   deps |-> [selectedId |-> Null, selectedFeature |-> <<>>],
   listMounted |-> TRUE,
   expandedGroups |-> {},
   listDeps |-> NoListDeps,
   clicked |-> Null]

\* the effect of the Sidebar (index.tsx, lines 20-24), run after a render the
\* dependencies [selectedId, selectedFeature] of which have changed
SidebarEffect(sb, a, appDateRange) ==
  LET deps == [selectedId |-> selectedIdProp(a),
               selectedFeature |-> selectedFeature(a, appDateRange)]
  IN  IF deps = sb.deps THEN sb
      ELSE [sb EXCEPT
              !.deps = deps,
              !.showDetails =
                 IF deps.selectedId # Null /\ deps.selectedFeature # <<>>
                   THEN TRUE ELSE @]

\* the selection effect of EventList (lines 32-46): the group of the selected
\* feature is added to expandedGroups
ExpandSelected(expandedGroups, features, selectedId) ==
  LET found == SelectSeq(features, LAMBDA f : f.id = selectedId)
  IN  IF selectedId # Null /\ found # <<>>
        THEN expandedGroups \union {found[1].fireid}
        ELSE expandedGroups

\* toggleGroup of EventList (lines 48-58)
ToggleGroup(expandedGroups, fireId) ==
  IF fireId \in expandedGroups
    THEN expandedGroups \ {fireId}
    ELSE expandedGroups \union {fireId}

\* A render of App with state a and date range appDateRange, and the commit
\* of the Sidebar below it (index.tsx, lines 51-67): the Sidebar effect runs;
\* the details replace the list when showDetails and selectedFeature are both
\* set, which unmounts EventList and discards its state; otherwise EventList
\* is rendered, with the initial state (line 17) when it was not
\* before, and its selection effect runs when it is mounted or one of
\* [selectedId, features] has changed: features is a new array in every
\* render of App with a date range, and the array of the load without one.
\* (clicked is history: the id of the click this commit follows, set by the
\* click handlers.)
AppRender(sb, a, appDateRange) ==
  LET features == filteredFeatures(a.features, appDateRange)
      sid == selectedIdProp(a)
      s1 == SidebarEffect(sb, a, appDateRange)
      details == s1.showDetails /\ selectedFeature(a, appDateRange) # <<>>
      ld == [selectedId |-> sid, load |-> a.load]
      run == ~sb.listMounted \/ appDateRange # <<>> \/ ld # sb.listDeps
  IN  IF details
        THEN [s1 EXCEPT !.listMounted = FALSE,
                        !.expandedGroups = {},
                        !.listDeps = NoListDeps,
                        !.clicked = Null]
        ELSE [s1 EXCEPT
                !.listMounted = TRUE,
                !.clicked = Null,
                !.listDeps = ld,
                !.expandedGroups =
                   IF run
                     THEN ExpandSelected(IF sb.listMounted THEN @ ELSE {},
                                         features, sid)
                     ELSE @]

\* nothing has been evaluated yet
NoEvaluation == [fn |-> "none", input |-> <<>>, output |-> <<>>]

\* a handler of the time-range selector: it neither touches the filters nor
\* calls onFiltersChange, and evaluates no mapping on its own
NoFilterChange ==
  /\ filtersEmitted' = <<>>
  /\ UNCHANGED <<showFilters, filters, probe, app>>

\* state after the first render: useState initial values
Init ==
  /\ containerRef = FALSE
  /\ dimensions = [width |-> 0]
  /\ range = InitialRange(0)
  /\ dragging = "none"
  /\ isPlaying = FALSE
  /\ animationFrame = FALSE
  /\ dateRange = <<>>
  /\ emitted = <<>>
  /\ crashed = FALSE
  /\ lastOp = "init"
  /\ lastX = 0
  /\ press = NoPress
  /\ presses = 0
  /\ ticks = 0
  /\ effectDeps = handleDateRangeChange(<<>>)
  /\ showFilters = FALSE
  /\ filters = NoFilters
  /\ filtersEmitted = <<>>
  /\ probe = NoProbe
  /\ listeners = NoListeners
  /\ unmounted = FALSE
  /\ app = InitialApp
  /\ sidebar = InitialSidebar
  /\ evaluation = NoEvaluation

\* onRangeChange(r) = App.handleDateRangeChange: setDateRange(r)
Emit(r) ==
  /\ emitted' = <<r>>
  /\ dateRange' = <<r>>
  /\ sidebar' = AppRender(sidebar, app, <<r>>)
  /\ UNCHANGED evaluation

EmitNothing ==
  /\ emitted' = <<>>
  /\ UNCHANGED dateRange
  /\ UNCHANGED sidebar
  /\ UNCHANGED evaluation

\* the mount effect (lines 87-110): runs when one of its dependencies has
\* changed since it last ran: containerRef (set once, by the ref callback) or
\* onRangeChange (minDate, maxDate and totalRange are memoized constants); w is
\* the measured width in px
Mount(w) ==
  /\ ~crashed
  /\ ~unmounted
  /\ UNCHANGED unmounted
  /\ UNCHANGED listeners
  /\ ~containerRef \/ effectDeps # handleDateRangeChange(dateRange)
  /\ containerRef' = TRUE
  /\ effectDeps' = handleDateRangeChange(dateRange)
  /\ NoFilterChange
  /\ dimensions' = [width |-> Px(w)]
  /\ range' = MountRange(Px(w))
  /\ Emit(Interval(DateValue(defaultStartDate), DateValue(defaultEndDate)))
  /\ lastOp' = "mount"
  /\ lastX' = 0
  /\ UNCHANGED <<dragging, isPlaying, animationFrame, crashed, press, presses, ticks>>

\* handleMouseDown (lines 168-171); px is the pointer coordinate of the event
handleMouseDown(type, px) ==
  /\ ~crashed
  /\ ~unmounted
  /\ UNCHANGED unmounted
  /\ NoFilterChange
  /\ UNCHANGED effectDeps
  /\ containerRef
  /\ presses < MaxPress
  /\ dragging' = type
  /\ listeners' = ListenerEffect(listeners, dragging, type)
  /\ EmitNothing
  /\ lastOp' = "down"
  /\ lastX' = 0
  /\ press' = IF type = "selection"
               THEN [valid |-> TRUE, x |-> px, range |-> range]
               ELSE NoPress
  /\ presses' = presses + 1
  /\ UNCHANGED <<containerRef, dimensions, range, isPlaying, animationFrame, crashed, ticks>>

\* handleMouseMove (lines 173-206): a mousemove on window calls an attached
\* listener, which works with the drag mode, the container and the width of
\* the render that made it; the effect attaches it only when that mode is set,
\* so the test of line 174 does not return
handleMouseMove(px) ==
  /\ ~crashed
  /\ ~unmounted
  /\ UNCHANGED unmounted
  /\ UNCHANGED listeners
  /\ NoFilterChange
  /\ UNCHANGED effectDeps
  /\ containerRef
  /\ \E i \in DOMAIN listeners.mousemove :
     LET mode == listeners.mousemove[i]
         x == ClampPointer(px, dimensions.width)
         newRange == MouseMoveRange(range, mode, x, dimensions.width)
         ds == getDateFromPosition(newRange.start, dimensions.width)
         de == getDateFromPosition(newRange.end, dimensions.width)
     IN  IF ~ds.isDate
           \* dateRange.start.getTime is not a function: the updater throws
           THEN /\ crashed' = TRUE
                /\ EmitNothing
                /\ UNCHANGED range
           ELSE /\ range' = newRange
                /\ Emit(Interval(ds, de))
                /\ UNCHANGED crashed
  /\ lastOp' = "move"
  /\ lastX' = IF press.valid THEN px ELSE 0
  /\ UNCHANGED <<containerRef, dimensions, dragging, isPlaying, animationFrame,
                 press, presses, ticks>>

\* handleMouseUp that ends a drag of a handle only
\* (if (dragging !== 'selection') setDragging(null))
handleMouseUpHandlesOnly ==
  /\ ~crashed
  /\ ~unmounted
  /\ UNCHANGED unmounted
  /\ NoFilterChange
  /\ UNCHANGED effectDeps
  /\ listeners.mouseup
  /\ dragging' = IF dragging = "selection" THEN dragging ELSE "none"
  /\ listeners' = ListenerEffect(listeners, dragging, dragging')
  /\ EmitNothing
  /\ lastOp' = "up"
  /\ lastX' = 0
  /\ press' = NoPress
  /\ UNCHANGED <<containerRef, dimensions, range, isPlaying, animationFrame,
                 crashed, presses, ticks>>

\* handleMouseUp (lines 208-210), a window listener attached while dragging
handleMouseUp ==
  /\ ~crashed
  /\ ~unmounted
  /\ UNCHANGED unmounted
  /\ NoFilterChange
  /\ UNCHANGED effectDeps
  /\ listeners.mouseup
  /\ dragging' = "none"
  /\ listeners' = ListenerEffect(listeners, dragging, "none")
  /\ EmitNothing
  /\ lastOp' = "up"
  /\ lastX' = 0
  /\ press' = NoPress
  /\ UNCHANGED <<containerRef, dimensions, range, isPlaying, animationFrame,
                 crashed, presses, ticks>>

\* the play/pause button with an autoplay effect that returns no cleanup: the
\* frame requested while playing stays requested after a pause
togglePlayNoCancel ==
  /\ ~crashed
  /\ ~unmounted
  /\ UNCHANGED unmounted
  /\ UNCHANGED listeners
  /\ NoFilterChange
  /\ UNCHANGED effectDeps
  /\ containerRef
  /\ isPlaying' = ~isPlaying
  /\ animationFrame' = (animationFrame \/ ~isPlaying)
  /\ EmitNothing
  /\ lastOp' = "toggle"
  /\ lastX' = 0
  /\ UNCHANGED <<containerRef, dimensions, range, dragging, crashed, press, presses, ticks>>

\* a play button that only starts playback: setIsPlaying(true)
togglePlayStartsOnly ==
  /\ ~crashed
  /\ ~unmounted
  /\ UNCHANGED unmounted
  /\ UNCHANGED listeners
  /\ NoFilterChange
  /\ UNCHANGED effectDeps
  /\ containerRef
  /\ isPlaying' = TRUE
  /\ animationFrame' = TRUE
  /\ EmitNothing
  /\ lastOp' = "toggle"
  /\ lastX' = 0
  /\ UNCHANGED <<containerRef, dimensions, range, dragging, crashed, press, presses, ticks>>

\* the play/pause button (line 348): setIsPlaying(!isPlaying); the autoplay
\* effect then requests a frame (playing) or its cleanup cancels it (paused)
togglePlay ==
  /\ ~crashed
  /\ ~unmounted
  /\ UNCHANGED unmounted
  /\ UNCHANGED listeners
  /\ NoFilterChange
  /\ UNCHANGED effectDeps
  /\ containerRef
  /\ isPlaying' = ~isPlaying
  /\ animationFrame' = ~isPlaying
  /\ EmitNothing
  /\ lastOp' = "toggle"
  /\ lastX' = 0
  /\ UNCHANGED <<containerRef, dimensions, range, dragging, crashed, press, presses, ticks>>

\* a reset button wired like the play button: setIsPlaying(!isPlaying)
handleResetTogglesPlay ==
  /\ ~crashed
  /\ ~unmounted
  /\ UNCHANGED unmounted
  /\ UNCHANGED listeners
  /\ NoFilterChange
  /\ UNCHANGED effectDeps
  /\ containerRef
  /\ range' = ResetRange(dimensions.width)
  /\ Emit(Interval(NumberValue(minDate), NumberValue(maxDate)))
  /\ isPlaying' = ~isPlaying
  /\ animationFrame' = ~isPlaying
  /\ lastOp' = "reset"
  /\ lastX' = 0
  /\ press' = NoPress
  /\ UNCHANGED <<containerRef, dimensions, dragging, crashed, presses, ticks>>

\* handleReset (lines 212-216)
handleReset ==
  /\ ~crashed
  /\ ~unmounted
  /\ UNCHANGED unmounted
  /\ UNCHANGED listeners
  /\ NoFilterChange
  /\ UNCHANGED effectDeps
  /\ containerRef
  /\ range' = ResetRange(dimensions.width)
  /\ Emit(Interval(NumberValue(minDate), NumberValue(maxDate)))
  /\ isPlaying' = FALSE
  /\ animationFrame' = FALSE
  /\ lastOp' = "reset"
  /\ lastX' = 0
  /\ press' = NoPress
  /\ UNCHANGED <<containerRef, dimensions, dragging, crashed, presses, ticks>>

\* animate (lines 137-159): one animation frame of the autoplay effect.  The
\* frame was requested by the effect while isPlaying was true, so the
\* callback's captured isPlaying is true (the test of line 138 passes whatever
\* the state is by now).  When the updater stops playback the
\* frame requested at line 157 is cancelled by the effect cleanup that the
\* re-render with isPlaying = false runs (line 165).
AnimateFrame ==
  /\ ~crashed
  /\ ~unmounted
  /\ UNCHANGED unmounted
  /\ UNCHANGED listeners
  /\ NoFilterChange
  /\ UNCHANGED effectDeps
  /\ animationFrame
  /\ LET r == AnimateRange(range, dimensions.width)
     IN  /\ range' = r.range
         /\ isPlaying' = IF r.stop THEN FALSE ELSE isPlaying
         /\ animationFrame' = ~r.stop
         /\ IF r.emit = <<>> THEN EmitNothing ELSE Emit(r.emit[1])
  /\ lastOp' = "tick"
  /\ lastX' = 0
  /\ press' = NoPress
  /\ UNCHANGED <<containerRef, dimensions, dragging, crashed, presses>>

\* an animation frame, counted against the exploration bound
animate ==
  /\ ticks < MaxTicks
  /\ AnimateFrame
  /\ ticks' = ticks + 1

Next ==
  \/ \E w \in Widths : Mount(w)
  \/ \E type \in DragTypes, px \in Pointers : handleMouseDown(type, px)
  \/ \E px \in Pointers : handleMouseMove(px)
  \/ handleMouseUp
  \/ togglePlay
  \/ handleReset
  \/ animate

Spec == Init /\ [][Next]_vars

\* the component is unmounted: the cleanups of its effects run, that of the
\* autoplay effect (line 165) and that of the listener effect (lines 222-225)
Unmount ==
  /\ ~crashed
  /\ ~unmounted
  /\ unmounted' = TRUE
  /\ animationFrame' = FALSE
  /\ listeners' = ListenerCleanup(listeners, dragging)
  /\ EmitNothing
  /\ filtersEmitted' = <<>>
  /\ lastOp' = "unmount"
  /\ UNCHANGED <<containerRef, dimensions, range, dragging, isPlaying, crashed,
                 lastX, press, presses, ticks, effectDeps, showFilters, filters,
                 probe, app>>

\* The life of the component up to its unmount: the handlers of Spec on
\* fewer pointer positions (one on the window, one beyond the right edge),
\* and the unmount at any moment.
LifecyclePointers == {100, 1100}

NextLifecycle ==
  \/ \E w \in Widths : Mount(w)
  \/ \E type \in DragTypes, px \in LifecyclePointers : handleMouseDown(type, px)
  \/ \E px \in LifecyclePointers : handleMouseMove(px)
  \/ handleMouseUp
  \/ togglePlay
  \/ handleReset
  \/ animate
  \/ Unmount

LifecycleSpec == Init /\ [][NextLifecycle]_vars

\* Autoplay left alone: the user acts (at most MaxPressAuto presses) only while
\* playback is off; once it is on, animation frames are the only events.  The
\* browser runs a requested frame callback unless it is cancelled: weak
\* fairness of the frame.
animateAlone ==
  /\ AnimateFrame
  /\ UNCHANGED ticks

NextAuto ==
  \/ \E w \in WidthsAuto : Mount(w)
  \/ /\ ~isPlaying
     /\ presses < MaxPressAuto
     /\ \E type \in DragTypes, px \in PointersAuto : handleMouseDown(type, px)
  \/ /\ ~isPlaying
     /\ \E px \in PointersAuto : handleMouseMove(px)
  \/ /\ ~isPlaying
     /\ handleMouseUp
  \/ /\ ~isPlaying
     /\ togglePlay
  \/ /\ ~isPlaying
     /\ handleReset
  \/ animateAlone

AutoplaySpec == Init /\ [][NextAuto]_vars /\ WF_vars(animateAlone)

\* the Filters button (line 337): setShowFilters(!showFilters)
toggleFilters ==
  /\ ~crashed
  /\ ~unmounted
  /\ UNCHANGED unmounted
  /\ UNCHANGED listeners
  /\ containerRef
  /\ showFilters' = ~showFilters
  /\ filtersEmitted' = <<>>
  /\ EmitNothing
  /\ lastOp' = "filters"
  /\ UNCHANGED <<containerRef, dimensions, range, dragging, isPlaying,
                 animationFrame, crashed, lastX, press, presses, ticks,
                 effectDeps, filters, probe, app>>

\* the onChange of a filter input, rendered while the panel is shown:
\* setFilters(newFilters); onFiltersChange(newFilters).  App stores the same
\* object as its filters (handleFiltersChange), and the effect of useDebounce
\* clears the pending timeout and sets one for the new object.
FilterInput(id, bound, value) ==
  /\ ~crashed
  /\ ~unmounted
  /\ UNCHANGED unmounted
  /\ UNCHANGED listeners
  /\ containerRef
  /\ showFilters
  /\ filters' = FilterChange(filters, id, bound, value)
  /\ filtersEmitted' = <<filters'>>
  /\ app' = [app EXCEPT !.handler = Debounce(@, filters')]
  /\ emitted' = <<>>
  /\ UNCHANGED dateRange
  /\ UNCHANGED evaluation
  /\ sidebar' = AppRender(sidebar, app', dateRange)
  /\ lastOp' = "filter"
  /\ UNCHANGED <<containerRef, dimensions, range, dragging, isPlaying,
                 animationFrame, crashed, lastX, press, presses, ticks,
                 effectDeps, showFilters, probe>>

\* the onChange of the Min input of an attribute (lines 382-392)
handleMinChange(id, value) == FilterInput(id, "min", value)

\* the onChange of the Max input of an attribute (lines 401-411)
handleMaxChange(id, value) == FilterInput(id, "max", value)

\* The filter panel next to the selector: the pointer, playback and reset
\* handlers as in Spec, on the 800 px track, on fewer pointer positions and
\* with at most MaxPressAuto presses, interleaved with the filter inputs.
FilterWidths == {800}
FilterPointers == {100, 750}

NextFilter ==
  \/ \E w \in FilterWidths : Mount(w)
  \/ toggleFilters
  \/ \E id \in FilterIds, value \in FilterValues : handleMinChange(id, value)
  \/ \E id \in FilterIds, value \in FilterValues : handleMaxChange(id, value)
  \/ /\ presses < MaxPressAuto
     /\ \E type \in DragTypes, px \in FilterPointers : handleMouseDown(type, px)
  \/ \E px \in FilterPointers : handleMouseMove(px)
  \/ handleMouseUp
  \/ togglePlay
  \/ handleReset
  \/ animate

FilterSpec == Init /\ [][NextFilter]_vars

\* every variable of the selector, which the steps of App's data loading leave
\* alone
sliderVars ==
  <<containerRef, dimensions, range, dragging, isPlaying, animationFrame,
    dateRange, emitted, crashed, lastOp, lastX, press, presses, ticks,
    effectDeps, showFilters, filters, filtersEmitted, probe, listeners,
    unmounted>>

\* the sequence s without its i-th element
RemoveAt(s, i) == SubSeq(s, 1, i - 1) \o SubSeq(s, i + 1, Len(s))

\* the id toast.custom returns for a new toast: one that no fetch in flight
\* holds
NewToastId(a) ==
  CHOOSE id \in 1 .. MaxFetch :
    /\ \A i \in DOMAIN a.toastIds : a.toastIds[i] # id
    /\ \A other \in 1 .. MaxFetch :
         (\A i \in DOMAIN a.toastIds : a.toastIds[i] # other) => id <= other

\* a run of the fetch effect for the debouncedFilters f (lines 54-74, 176):
\* the toast of activeToastId is dismissed, fetchData makes its loading
\* toast and stores its id with setActiveToastId, and the request is sent
StartFetch(a, f) ==
  [a EXCEPT !.fetches = Append(@, f),
            !.toastIds = Append(@, NewToastId(a)),
            !.visible = (@ \ {a.activeToastId}) \union {NewToastId(a)},
            !.activeToastId = NewToastId(a)]

\* the finally block of fetchData leaving the loading toast on the screen
FinallyKeepsToast(a, i) ==
  [a EXCEPT !.fetches = RemoveAt(@, i),
            !.toastIds = RemoveAt(@, i),
            !.activeToastId = 0]

\* the finally block of fetchData for the i-th fetch in flight (lines
\* 170-173): toast.dismiss(toastId); setActiveToastId(undefined)
Finally(a, i) ==
  [a EXCEPT !.fetches = RemoveAt(@, i),
            !.toastIds = RemoveAt(@, i),
            !.visible = @ \ {a.toastIds[i]},
            !.activeToastId = 0]

\* the timeout of useDebounce fires (lines 13-15): setDebouncedValue(value).
\* For the initial object nothing changes; for a new object App renders again
\* and the fetch effect (dependency debouncedFilters) calls fetchData, with no
\* cleanup for the fetches already in flight.
DebounceFire ==
  /\ app.handler # <<>>
  /\ Len(app.fetches) < MaxFetch
  /\ LET h == app.handler[1]
         fired == [app EXCEPT !.handler = Tail(@),
                              !.debouncedFilters = h.value]
     IN  app' = IF h.isNew THEN StartFetch(fired, h.value) ELSE fired
  /\ sidebar' = IF app.handler[1].isNew
                  THEN AppRender(sidebar, app', dateRange) ELSE sidebar
  /\ UNCHANGED sliderVars
  /\ UNCHANGED evaluation

\* the response of a fetch in flight arrives (lines 76-167): the data is
\* filtered by the debouncedFilters of the render that called fetchData
FetchResolve(i) ==
  /\ i \in DOMAIN app.fetches
  /\ app' = Finally([app EXCEPT
                        !.features = FilterFeatures(Dataset, app.fetches[i]),
                        !.load = 1 - @], i)
  /\ sidebar' = AppRender(sidebar, app', dateRange)
  /\ UNCHANGED sliderVars
  /\ UNCHANGED evaluation

\* a fetch in flight fails (lines 168-169): the error is logged
FetchFail(i) ==
  /\ i \in DOMAIN app.fetches
  /\ app' = Finally([app EXCEPT !.failed = TRUE], i)
  /\ sidebar' = AppRender(sidebar, app', dateRange)
  /\ UNCHANGED sliderVars
  /\ UNCHANGED evaluation

\* App's data loading: the filter inputs of the area, the debounce timeout
\* and the fetches, at most MaxFetch of them in flight.
FetchFilterIds == {"farea"}

NextFetch ==
  \/ \E w \in FilterWidths : Mount(w)
  \/ toggleFilters
  \/ \E id \in FetchFilterIds, value \in FilterValues : handleMinChange(id, value)
  \/ \E id \in FetchFilterIds, value \in FilterValues : handleMaxChange(id, value)
  \/ DebounceFire
  \/ \E i \in 1 .. MaxFetch : FetchResolve(i)
  \/ \E i \in 1 .. MaxFetch : FetchFail(i)

FetchSpec == Init /\ [][NextFetch]_vars

\* a fetch in flight settles, by its response or by an error
FetchSettle == \E i \in 1 .. MaxFetch : FetchResolve(i) \/ FetchFail(i)

\* App's data loading with its timers and requests running: a pending
\* timeout fires in the end, and every request settles in the end.
DebounceSpec ==
  Init /\ [][NextFetch]_vars /\ WF_vars(DebounceFire) /\ WF_vars(FetchSettle)

\* App.handleSelectFeature(id, fromSidebar) (lines 191-196) and the render it
\* causes; App does not render when no state has changed
handleSelectFeature(id, fromSidebar) ==
  /\ ~crashed
  /\ app' = SelectFeature(app, id, fromSidebar)
  /\ sidebar' = [(IF app' = app THEN sidebar
                  ELSE AppRender(sidebar, app', dateRange))
                   EXCEPT !.clicked = id]
  /\ UNCHANGED sliderVars
  /\ UNCHANGED evaluation

\* App.handleBack (lines 186-189) and the render it causes
handleBack ==
  /\ ~crashed
  /\ app' = Back(app)
  /\ sidebar' = IF app' = app THEN [sidebar EXCEPT !.clicked = Null]
                ELSE AppRender(sidebar, app', dateRange)
  /\ UNCHANGED sliderVars
  /\ UNCHANGED evaluation

\* App.handleResetView (lines 179-184) and the render it causes
handleResetView ==
  /\ ~crashed
  /\ app' = ResetView(app)
  /\ sidebar' = IF app' = app THEN [sidebar EXCEPT !.clicked = Null]
                ELSE AppRender(sidebar, app', dateRange)
  /\ UNCHANGED sliderVars
  /\ UNCHANGED evaluation

\* the ids of the features App passes to the map and to the Sidebar
ShownIds ==
  {Props(app, dateRange).MapView[i].id :
     i \in DOMAIN Props(app, dateRange).MapView}

\* the feature of an id in the dataset
FeatureOf(id) == CHOOSE f \in {Dataset[i] : i \in DOMAIN Dataset} : f.id = id

\* onClick of MapView (lines 80-85): a click on the perimeter of a feature of
\* the map calls onSelectFeature(id) = handleSelectFeature(id).  The page
\* takes clicks once its first commit is over and the mount effects have run.
onClick(id) ==
  /\ containerRef
  /\ id \in ShownIds
  /\ handleSelectFeature(id, FALSE)

\* a click on an event of the list (EventList, line 103), rendered while its
\* group is expanded: the onSelectFeature of the Sidebar (index.tsx, lines
\* 58-61) calls handleSelectFeature(id, true) and setShowDetails(true)
onSelectFeature(id) ==
  /\ ~crashed
  /\ containerRef
  /\ sidebar.listMounted
  /\ id \in ShownIds
  /\ FeatureOf(id).fireid \in sidebar.expandedGroups
  /\ app' = SelectFeature(app, id, TRUE)
  /\ sidebar' = [AppRender([sidebar EXCEPT !.showDetails = TRUE], app',
                           dateRange) EXCEPT !.clicked = id]
  /\ UNCHANGED sliderVars
  /\ UNCHANGED evaluation

\* the Back button of the details, rendered in place of the list:
\* Sidebar.handleBack (index.tsx, lines 26-29): setShowDetails(false); onBack()
onBack ==
  /\ ~crashed
  /\ containerRef
  /\ ~sidebar.listMounted
  /\ app' = Back(app)
  /\ sidebar' = AppRender([sidebar EXCEPT !.showDetails = FALSE], app', dateRange)
  /\ UNCHANGED sliderVars
  /\ UNCHANGED evaluation

\* a click on the header of a group of the list: toggleGroup (EventList,
\* lines 48-58); only EventList renders again
toggleGroup(fireId) ==
  /\ ~crashed
  /\ containerRef
  /\ sidebar.listMounted
  /\ fireId \in FireIds(filteredFeatures(app.features, dateRange))
  /\ sidebar' = [sidebar EXCEPT !.expandedGroups = ToggleGroup(@, fireId),
                                !.clicked = Null]
  /\ UNCHANGED app
  /\ UNCHANGED sliderVars
  /\ UNCHANGED evaluation

\* The selection of a feature: the first load, the selector on the 800 px
\* track with its reset and one press, and the clicks on the map, on the list
\* and on the Back button.
FeatureIds == {Dataset[i].id : i \in DOMAIN Dataset}

NextSelection ==
  \/ \E w \in FilterWidths : Mount(w)
  \/ \E i \in 1 .. MaxFetch : FetchResolve(i)
  \/ /\ presses < MaxPressAuto
     /\ \E type \in DragTypes, px \in FilterPointers : handleMouseDown(type, px)
  \/ \E px \in FilterPointers : handleMouseMove(px)
  \/ handleMouseUp
  \/ handleReset
  \/ \E id \in FeatureIds : onClick(id)
  \/ \E id \in FeatureIds : onSelectFeature(id)
  \/ onBack
  \/ \E fireId \in FireIds(Dataset) : toggleGroup(fireId)

SelectionSpec == Init /\ [][NextSelection]_vars

\* The three selection handlers of App called in any order with any id,
\* whatever the Sidebar renders, next to the data loading of FetchSpec for
\* the area minimum and the selector's mount and reset.
NextHandlers ==
  \/ \E w \in FilterWidths : Mount(w)
  \/ handleReset
  \/ toggleFilters
  \/ \E id \in FetchFilterIds, value \in FilterValues : handleMinChange(id, value)
  \/ DebounceFire
  \/ \E i \in 1 .. MaxFetch : FetchResolve(i)
  \/ \E id \in FeatureIds, fromSidebar \in BOOLEAN :
        handleSelectFeature(id, fromSidebar)
  \/ handleBack
  \/ handleResetView

HandlerSpec == Init /\ [][NextHandlers]_vars

\* every sequence of at most n elements of S
SeqUpTo(S, n) == UNION {[1 .. k -> S] : k \in 0 .. n}

\* The computations of the page on a list of features, each on its own: one
\* of them is evaluated on a list of at most MaxFeatures features, one
\* evaluation in each behaviour.
MaxFeatures == 2
AttributeValues == {3, 5, 8}
AttributeFeatures ==
  [farea : AttributeValues, duration : AttributeValues,
   meanfrp : AttributeValues]
AllFilters ==
  [FilterIds -> [min : FilterValues, max : FilterValues]]

\* the attribute filter of fetchData (lines 157-165) applied to the parsed
\* features, for the debouncedFilters f
EvaluateFilter(features, f) ==
  /\ evaluation.fn = "none"
  /\ evaluation' = [fn |-> "filter",
                    input |-> [features |-> features, filters |-> f],
                    output |-> FilterFeatures(features, f)]
  /\ UNCHANGED <<sliderVars, app, sidebar>>

\* the decimal digits of a natural number, as `${n}` writes them
DigitChars == <<"0", "1", "2", "3", "4", "5", "6", "7", "8", "9">>
RECURSIVE Digits(_)
Digits(n) ==
  IF n < 10 THEN <<DigitChars[n + 1]>>
  ELSE Digits(n \div 10) \o <<DigitChars[(n % 10) + 1]>>

\* eventKey written without the separators: `${fireid}${t}${farea}`
eventKeyNoSeparator(feature) ==
  Digits(feature.fireid) \o Digits(feature.t) \o Digits(feature.farea)

\* eventKey (src/App.tsx, line 58): `${fireid}_${t}_${farea}`; t is a
\* date string of the API, which holds no underscore, written here as the
\* digits of a number
eventKey(feature) ==
  Digits(feature.fireid) \o <<"_">> \o Digits(feature.t) \o <<"_">>
    \o Digits(feature.farea)

\* the filter of transformedFeatures (src/App.tsx, lines 57-62) on the rest
\* of the list, with the keys seen so far
RECURSIVE FilterSeen(_, _)
FilterSeen(features, seenEvents) ==
  IF features = <<>> THEN <<>>
  ELSE IF eventKey(Head(features)) \in seenEvents
         THEN FilterSeen(Tail(features), seenEvents)
         ELSE <<Head(features)>>
                \o FilterSeen(Tail(features),
                              seenEvents \union {eventKey(Head(features))})

\* transformedFeatures (src/App.tsx, lines 36-62): seenEvents starts empty
transformedFeatures(features) == FilterSeen(features, {})

\* the features of the API the de-duplication is evaluated on: at most
\* MaxEvents of them, with one or two digit fireids and times, so that
\* different features can be written with the same digits
MaxEvents == 3
ApiFeatures ==
  [fireid : {1, 12}, t : {3, 23}, farea : {4, 5}, duration : {1, 2}]

\* the de-duplication of the loaded features (src/App.tsx, lines 36-64)
EvaluateDedup(features) ==
  /\ evaluation.fn = "none"
  /\ evaluation' = [fn |-> "dedup", input |-> features,
                    output |-> transformedFeatures(features)]
  /\ UNCHANGED <<sliderVars, app, sidebar>>

\* a quotient of two integers, as the exact value of the division
Fraction(num, den) == [num |-> num, den |-> den]
Zero == Fraction(0, 1)

\* normalizedTime dividing by maxTime: (t - minTime) / maxTime
normalizedTimeOverMax(t, minTime, maxTime) ==
  IF maxTime - minTime = 0 THEN Zero
  ELSE Fraction(t - minTime, maxTime)

\* normalizedTime of a feature of a fire group (MapView, lines 136-137):
\* timeRange === 0 ? 0 : (t - minTime) / timeRange
normalizedTime(t, minTime, maxTime) ==
  IF maxTime - minTime = 0 THEN Zero
  ELSE Fraction(t - minTime, maxTime - minTime)

\* Math.min(...timestamps) and Math.max(...timestamps) of a fire group
\* (lines 125-126)
MinTime(fireGroup) ==
  CHOOSE m \in {fireGroup[i].t : i \in DOMAIN fireGroup} :
    \A i \in DOMAIN fireGroup : m <= fireGroup[i].t
MaxTime(fireGroup) ==
  CHOOSE m \in {fireGroup[i].t : i \in DOMAIN fireGroup} :
    \A i \in DOMAIN fireGroup : m >= fireGroup[i].t

\* the features of one fire group with their normalizedTime (lines 123-139)
ProcessGroup(fireGroup) ==
  [i \in DOMAIN fireGroup |->
     [id |-> fireGroup[i].id, fireid |-> fireGroup[i].fireid,
      t |-> fireGroup[i].t,
      normalizedTime |->
        normalizedTime(fireGroup[i].t, MinTime(fireGroup), MaxTime(fireGroup))]]

\* Object.values(fireGroups).flatMap(...) (lines 114-140) for the fireids in
\* keys: the keys of fireGroups are numbers, which Object.values visits in
\* ascending order; the group of a key is made by the reduce of lines 114-121
RECURSIVE processedFeatures(_, _)
processedFeatures(features, keys) ==
  IF keys = {} THEN <<>>
  ELSE LET fireid == CHOOSE k \in keys : \A other \in keys : k <= other
       IN  ProcessGroup(SelectSeq(features, LAMBDA f : f.fireid = fireid))
             \o processedFeatures(features, keys \ {fireid})

\* processedGeojsonData.features (lines 113-145)
processedGeojsonData(features) ==
  processedFeatures(features, FireIds(features))

\* the features of the map the normalization is evaluated on: at most
\* MaxEvents of them, of two fires and at three times, each with its
\* position in the list as id
MapFeatures ==
  {[i \in DOMAIN s |-> [id |-> i, fireid |-> s[i].fireid, t |-> s[i].t]] :
     s \in SeqUpTo([fireid : {1, 2}, t : {10, 20, 40}], MaxEvents)}

\* processedGeojsonData of MapView (lines 113-146) for its features
EvaluateNormalize(features) ==
  /\ evaluation.fn = "none"
  /\ evaluation' = [fn |-> "normalize", input |-> features,
                    output |-> processedGeojsonData(features)]
  /\ UNCHANGED <<sliderVars, app, sidebar>>

NextFunction ==
  \/ /\ evaluation.fn = "none"
     /\ \E features \in MapFeatures : EvaluateNormalize(features)
  \/ /\ evaluation.fn = "none"
     /\ \E features \in SeqUpTo(ApiFeatures, MaxEvents) : EvaluateDedup(features)
  \/ /\ evaluation.fn = "none"
     /\ \E features \in SeqUpTo(AttributeFeatures, MaxFeatures), f \in AllFilters :
          EvaluateFilter(features, f)

FunctionSpec == Init /\ [][NextFunction]_vars

\* The position/time mapping on its own: the component is mounted on a track
\* of some width and its two mappers are evaluated at positions of a quarter
\* pixel grid, on the track and up to ProbeMargin px beside it, or at a date,
\* one evaluation in each behaviour.
ProbeMargin == 50
ProbePositions ==
  {p \in Px(0 - ProbeMargin) .. Px(1000 + ProbeMargin) : p % (PxUnit \div 4) = 0}

\* getDateFromPosition(position) as the component evaluates it (lines 129-133),
\* and getPositionFromDate (lines 95-98) of the date it returns
MapPosition(position) ==
  /\ containerRef
  /\ ~unmounted
  /\ ~probe.done /\ ~probe.dated
  /\ LET date == getDateFromPosition(position, dimensions.width)
     IN  probe' = [done |-> TRUE, dated |-> FALSE, position |-> position,
                   date |-> date,
                   back |-> getPositionFromDate(date.time, dimensions.width)]
  /\ UNCHANGED <<containerRef, dimensions, range, dragging, isPlaying,
                 animationFrame, dateRange, emitted, crashed, lastOp, lastX,
                 press, presses, ticks, effectDeps, showFilters, filters,
                 filtersEmitted, listeners, unmounted, app, sidebar,
                 evaluation>>

\* the dates the position of which is asked for: every midnight of 2024 and
\* the noon after it
ProbeDates == {Date(d) + h : d \in 0 .. 365, h \in {0, 12}}

\* getPositionFromDate(date) of the mount effect (lines 95-98), for the width
\* the effect measured
MapDate(date) ==
  /\ containerRef
  /\ ~unmounted
  /\ ~probe.done /\ ~probe.dated
  /\ probe' = [done |-> FALSE, dated |-> TRUE,
                position |-> getPositionFromDate(date, dimensions.width),
                date |-> DateValue(date), back |-> 0]
  /\ UNCHANGED <<containerRef, dimensions, range, dragging, isPlaying,
                 animationFrame, dateRange, emitted, crashed, lastOp, lastX,
                 press, presses, ticks, effectDeps, showFilters, filters,
                 filtersEmitted, listeners, unmounted, app, sidebar,
                 evaluation>>

NextMapper ==
  \/ \E w \in WidthsAuto : Mount(w)
  \/ \E position \in ProbePositions : MapPosition(position)
  \/ \E date \in ProbeDates : MapDate(date)

MapperSpec == Init /\ [][NextMapper]_vars

\* =================================================================== claims
widthPx == dimensions.width
startPx == range.start
endPx == range.end

\* a handleMouseMove step that committed a window (the updater did not throw)
MoveCommitted(px) == handleMouseMove(px) /\ ~crashed'

\* an undisturbed selection drag whose last event was a committed pointer move,
\* pressed on the body of the window it started from
SelectionMoved ==
  /\ dragging = "selection"
  /\ lastOp = "move"
  /\ ~crashed
  /\ press.valid
  /\ press.range.start <= Px(press.x)
  /\ Px(press.x) <= press.range.end

\* C1: in every state after mount the selection window is at least
\* MIN_WIDTH_PX wide: endPx - startPx >= MIN_WIDTH_PX, for every track width.
\* (Stated as the claim states it; the code violates it for narrow tracks.)
C1_MinWidthAlways == containerRef => endPx - startPx >= minWidth

\* C2: in every state, the initial one included, both ends of the window lie
\* on the track: 0 <= startPx and endPx <= widthPx.
\* (Stated as the claim states it; the code violates it.)
C2_WindowOnTrack == 0 <= startPx /\ endPx <= widthPx

\* C3: in mode DraggingStart a pointer move to a coordinate greater than
\* endPx - MIN_WIDTH_PX sets startPx to exactly endPx - MIN_WIDTH_PX, a move
\* to a smaller coordinate sets startPx to the pointer coordinate clamped to
\* >= 0, and endPx is unchanged.
\* (Stated as the claim states it; the code violates it.)
C3_DragStartMove ==
  [][\A px \in PointersAuto :
       (dragging = "start" /\ MoveCommitted(px)) =>
         /\ endPx' = endPx
         /\ startPx' = IF Px(px) > endPx - minWidth
                         THEN endPx - minWidth
                         ELSE Max(Px(px), 0)]_vars

\* C4: in mode DraggingEnd a pointer move to a coordinate smaller than
\* startPx + MIN_WIDTH_PX sets endPx to exactly startPx + MIN_WIDTH_PX, a move
\* to a larger coordinate sets endPx to the pointer coordinate (clamped to the
\* track), the result is always <= widthPx, and startPx is unchanged.
\* (Stated as the claim states it; the code violates it.)
C4_DragEndMove ==
  [][\A px \in PointersAuto :
       (dragging = "end" /\ MoveCommitted(px)) =>
         /\ startPx' = startPx
         /\ endPx' <= widthPx
         /\ endPx' = IF Px(px) < startPx + minWidth
                       THEN startPx + minWidth
                       ELSE Min(Px(px), widthPx)]_vars

\* C5: in mode DraggingSelection a pointer move shifts the window the drag
\* started from by the pointer offset (pointer coordinate minus the coordinate
\* of the press), keeping its width and clamped to the track, wherever on the
\* selection body the press happened.
\* (Stated as the claim states it; the code violates it.)
C5_SelectionShift ==
  SelectionMoved =>
    LET w == press.range.end - press.range.start
        d == Px(lastX) - Px(press.x)
        s == Max(0, Min(press.range.start + d, widthPx - w))
    IN  range = [start |-> s, end |-> s + w]

\* the scenario of C6: widthPx = 800, a selection drag of {100, 300} pressed
\* on its body and moved by a pointer delta of +600
C6_Scenario ==
  /\ SelectionMoved
  /\ widthPx = Px(800)
  /\ press.range = [start |-> Px(100), end |-> Px(300)]
  /\ lastX - press.x = 600

\* C6 as stated: the scenario yields {start: 500, end: 700}.
C6_Original ==
  C6_Scenario => range = [start |-> Px(500), end |-> Px(700)]

\* C6, amended: with widthPx = 800, dragging the selection {100, 300} by a
\* pointer delta of +600 is clamped so that the width is kept and the end sits
\* at widthPx: it yields {start: 600, end: 800}.
C6_RightEdgeClamp ==
  C6_Scenario =>
    /\ range = [start |-> Px(600), end |-> Px(800)]
    /\ endPx = widthPx
    /\ endPx - startPx = press.range.end - press.range.start

C6_Witness == C6_Scenario /\ endPx = widthPx

\* an animation frame that committed a window (playback goes on)
TickCommitted == AnimateFrame /\ isPlaying'

\* the increment and the newEnd of the tick about to run
Increment == (widthPx * playbackSpeed) \div 100
NewEnd == Min(endPx + Increment, widthPx)

\* C7: each autoplay tick that does not reach the right edge commits
\* newEnd = min(endPx + increment, widthPx) and
\* newStart = min(startPx + increment, newEnd - MIN_WIDTH_PX), so that both
\* bounds advance by the same increment and the window width is preserved.
\* (Stated as the claim states it; the code violates the consequence.)
C7_TickAdvancesBoth ==
  [][TickCommitted =>
       /\ endPx' = NewEnd
       /\ startPx' = Min(startPx + Increment, NewEnd - minWidth)
       /\ endPx' = endPx + Increment
       /\ startPx' = startPx + Increment
       /\ endPx' - startPx' = endPx - startPx]_vars

\* C8: an autoplay tick with newEnd >= widthPx stops playback, leaves the
\* window exactly as it was and emits no range.
C8_TickAtEdgeStops ==
  [][(AnimateFrame /\ NewEnd >= widthPx) =>
       /\ isPlaying' = FALSE
       /\ range' = range
       /\ emitted' = <<>>
       /\ dateRange' = dateRange]_vars

\* a tick has just stopped playback at the right edge of a measured track,
\* after the window had advanced
C8_Witness ==
  /\ lastOp = "tick"
  /\ ~isPlaying
  /\ widthPx = Px(1000)
  /\ endPx < widthPx
  /\ startPx > 0

C10_Reset ==
  lastOp = "reset" =>
    /\ range = [start |-> 0, end |-> widthPx]
    /\ ~isPlaying
    /\ ~animationFrame
    /\ Len(emitted) = 1
    /\ emitted[1].start.time = minDate
    /\ emitted[1].end.time = maxDate
    /\ dateRange = emitted

\* reset ran during a drag, after playback had advanced the window
C10_Witness ==
  /\ lastOp = "reset"
  /\ dragging # "none"
  /\ ticks > 0
  /\ widthPx = Px(800)

\* C11: reset is idempotent: in a state that a reset has just produced, a
\* second reset changes nothing: the window, the playback flag, the pending
\* frame, the drag mode, the emitted interval and the interval App holds all
\* stay as the first reset left them.
C11_ResetIdempotent ==
  lastOp = "reset" => ~ENABLED <<handleReset>>_vars

\* a reset has just run in the middle of an end-handle drag on the 800 px
\* track, and the reset button can be clicked again
C11_Witness ==
  /\ lastOp = "reset"
  /\ dragging = "end"
  /\ widthPx = Px(800)
  /\ presses > 1
  /\ ENABLED handleReset

\* C12: a pointer press halts autoplay at once: right after a press no
\* animation frame is pending, so no tick can change the window after it.
C12_PressHaltsAutoplay ==
  lastOp = "down" => ~animationFrame

\* C13: the default window is set and the default interval emitted once,
\* when the track is first measured: the mount effect runs only in a state
\* where the container was not yet known, so no later press, move, release,
\* tick, toggle or reset re-runs it.
C13_MountOnce ==
  [][(\E w \in WidthsAuto : Mount(w)) => ~containerRef]_vars

\* after the mount, playback has advanced the window and a drag has ended:
\* App holds an interval that is not the default one, and the mount effect
\* cannot run
C13_Witness ==
  /\ containerRef
  /\ lastOp = "up"
  /\ ticks > 0
  /\ widthPx = Px(800)
  /\ dateRange # <<>>
  /\ dateRange[1].start.time # defaultStartDate
  /\ ~ENABLED (\E w \in WidthsAuto : Mount(w))

\* C14: onRangeChange is called exactly once by the mount effect, by each
\* reset, by each pointer move that commits a window and by each tick that
\* commits one (playback goes on after it), and App then holds the interval;
\* a press, a release, a toggle of playback, a discarded tick and a move
\* whose updater throws call it not at all.
C14_OneEmissionPerCommit ==
  /\ Len(emitted) =
       IF lastOp \in {"mount", "reset"} THEN 1
       ELSE IF lastOp = "move" /\ ~crashed THEN 1
       ELSE IF lastOp = "tick" /\ isPlaying THEN 1
       ELSE 0
  /\ emitted # <<>> => dateRange = emitted

\* a discarded tick: playback reached the right edge of the 800 px track
\* during a drag, after earlier handlers had emitted, and emitted nothing
C14_Witness ==
  /\ lastOp = "tick"
  /\ ~isPlaying
  /\ widthPx = Px(800)
  /\ dragging # "none"
  /\ endPx + Increment >= widthPx
  /\ dateRange # <<>>
  /\ emitted = <<>>

\* C15: the interval App holds is always the one derived from the window:
\* once an interval has been emitted, its start is the date of startPx and
\* its end the date of endPx, also right after the mount effect and after a
\* reset.
C15_EmittedDerivedFromWindow ==
  dateRange # <<>> =>
    /\ dateRange[1].start.time = getDateFromPosition(startPx, widthPx).time
    /\ dateRange[1].end.time = getDateFromPosition(endPx, widthPx).time

\* C16: no emission path forwards a corrupt interval or raises an error: every
\* interval that a handler passes to onRangeChange has two finite times, and
\* no handler throws.
C16_NoCorruptIntervalNoError ==
  /\ ~crashed
  /\ \A i \in DOMAIN emitted :
       /\ emitted[i].start.time \in Int
       /\ emitted[i].end.time \in Int

\* C17: on a track of positive width the two mappers are inverse on the
\* track, up to the resolution of a timestamp: the position of the date of a
\* position p in [0, widthPx] is at most p, and below p by no more than the
\* stretch of track that one unit of time covers, rounded up.
C17_RoundTrip ==
  (probe.done /\ widthPx > 0 /\ probe.position >= 0 /\ probe.position <= widthPx) =>
    /\ probe.back <= probe.position
    /\ probe.position - probe.back <= (widthPx \div totalRange) + 1

\* an interior position of the 800 px track whose date is not a whole number
\* of time units, so that the round trip rounds
C17_Witness ==
  /\ probe.done
  /\ widthPx = Px(800)
  /\ probe.position > 0
  /\ probe.position < widthPx
  /\ probe.back < probe.position

\* C18 as stated: on the 800 px track, position 0 maps to 2024-08-03,
\* position 800 to 2024-09-30 and position 400 to 2024-08-27T12:00.
C18_Original ==
  (probe.done /\ widthPx = Px(800)) =>
    /\ probe.position = 0 => probe.date.time = Date(215)
    /\ probe.position = Px(800) => probe.date.time = Date(273)
    /\ probe.position = Px(400) => probe.date.time = Date(239) + 12

\* C18: on the 800 px track, position 0 maps to 2024-08-03, position 800 to
\* 2024-09-30 and position 400 to the midpoint 2024-09-01T00:00 of the 58 days.
C18_Endpoints ==
  (probe.done /\ widthPx = Px(800)) =>
    /\ probe.position = 0 => probe.date.time = Date(215)
    /\ probe.position = Px(800) => probe.date.time = Date(273)
    /\ probe.position = Px(400) => probe.date.time = Date(244)

\* the midpoint of the 800 px track has been mapped
C18_Witness ==
  /\ probe.done
  /\ widthPx = Px(800)
  /\ probe.position = Px(400)

\* the other bound of an attribute
OtherBound(bound) == IF bound = "min" THEN "max" ELSE "min"

\* a change of one bound of one attribute emitted the whole updated mapping and
\* left the selector alone
FilterChanged(id, bound, value) ==
  /\ filtersEmitted' = <<filters'>>
  /\ filters'[id][bound] = value
  /\ filters'[id][OtherBound(bound)] = filters[id][OtherBound(bound)]
  /\ \A other \in FilterIds \ {id} : filters'[other] = filters[other]
  /\ emitted' = <<>>
  /\ UNCHANGED <<range, dragging, isPlaying, animationFrame, dateRange>>

\* C19: the filters and the date range are independent.  A change of a filter
\* input calls onFiltersChange once, with the whole mapping in which the
\* typed bound is replaced, the other bound of the attribute and the other
\* attributes are kept; it changes neither the window, the drag mode nor
\* playback and does not call onRangeChange.  Conversely only a filter input
\* changes the filters or calls onFiltersChange: no press, move, release,
\* tick, toggle or reset does.
C19_FiltersIndependent ==
  [][/\ \A id \in FilterIds, value \in FilterValues :
          /\ handleMinChange(id, value) => FilterChanged(id, "min", value)
          /\ handleMaxChange(id, value) => FilterChanged(id, "max", value)
     /\ (filters' # filters \/ filtersEmitted' # <<>>) => lastOp' = "filter"
    ]_vars

\* the maximum of the area was cleared in the middle of a selection drag,
\* with playback on: the minimum of the area and a bound of another attribute
\* are still set
C19_Witness ==
  /\ lastOp = "filter"
  /\ dragging = "selection"
  /\ isPlaying
  /\ filters["farea"].min # Undefined
  /\ filters["farea"].max = Undefined
  /\ filters["duration"].max # Undefined
  /\ filtersEmitted = <<filters>>
  /\ dateRange # <<>>

\* C20: the drag mode follows its transition table.  After every step the mode
\* is one of none, start, end and selection; a press on a handle or on the body sets
\* the mode to that of the pressed part and changes nothing else (window,
\* playback and App's interval stay, nothing is emitted); a pointer move
\* keeps the mode; a release sets it to none.
C20_DragModeTable ==
  [][/\ dragging' \in DragTypes \cup {"none"}
     /\ \A type \in DragTypes, px \in PointersAuto :
          handleMouseDown(type, px) =>
            /\ dragging' = type
            /\ emitted' = <<>>
            /\ UNCHANGED <<range, isPlaying, animationFrame, dateRange>>
     /\ \A px \in PointersAuto : handleMouseMove(px) => dragging' = dragging
     /\ handleMouseUp => dragging' = "none"
    ]_vars

\* a second drag: after a body drag was released, the end handle was pressed
\* and the pointer has moved, with the mode still that of the end handle
C20_Witness ==
  /\ dragging = "end"
  /\ lastOp = "move"
  /\ presses > 1
  /\ widthPx = Px(800)
  /\ ~crashed
  /\ press = NoPress

\* C21: in drag mode none a pointer move and a pointer release are no-ops: no
\* handleMouseMove and no handleMouseUp call can take place, so neither
\* changes the window, the mode or playback, and neither emits.  This holds
\* in particular after a release and before the next press.
C21_NoOpInNone ==
  dragging = "none" =>
    ~ENABLED ((\E px \in PointersAuto : handleMouseMove(px)) \/ handleMouseUp)

\* a drag on the 800 px track has just been released while playback is on:
\* the pointer can go on moving before the next press
C21_Witness ==
  /\ lastOp = "up"
  /\ dragging = "none"
  /\ widthPx = Px(800)
  /\ isPlaying
  /\ presses > 0
  /\ ENABLED (\E type \in DragTypes, px \in Pointers : handleMouseDown(type, px))

\* C22: on a track of width 0 a pointer move in a drag mode is a no-op: it
\* raises no error and emits nothing (and leaves the window where the mount
\* effect put it, at {0, 0}).
C22_ZeroWidthMoveNoOp ==
  (containerRef /\ widthPx = 0 /\ lastOp = "move") =>
    /\ ~crashed
    /\ emitted = <<>>
    /\ range = MountRange(0)

\* C23: drag and autoplay never both drive the window: while a drag mode is
\* set, also when playback was switched on during the drag, an animation
\* frame neither changes the window nor emits.
C23_NoTickDuringDrag ==
  [][(dragging # "none" /\ AnimateFrame) =>
       (range' = range /\ emitted' = <<>>)]_vars

C25_ListenersWhileDragging ==
  IF dragging = "none" \/ unmounted
    THEN listeners = NoListeners
    ELSE listeners = [mousemove |-> <<dragging>>, mouseup |-> TRUE]

\* the component was unmounted in the middle of its second drag, one that was
\* started on the end handle
C25_Witness ==
  /\ unmounted
  /\ dragging = "end"
  /\ presses > 1
  /\ widthPx = Px(800)
  /\ lastOp = "unmount"
  /\ ~isPlaying

\* C26: getDateFromPosition is total and clamped: for every position it
\* returns a Date, within [minDate, maxDate]; a position at or left of 0 gives
\* minDate, a position at or right of the width gives maxDate, a track of
\* width 0 gives minDate, and the next position to the right never gives an
\* earlier date.
C26_TotalAndClamped ==
  probe.done =>
    /\ probe.date.isDate
    /\ minDate <= probe.date.time /\ probe.date.time <= maxDate
    /\ probe.position <= 0 => probe.date.time = minDate
    /\ (widthPx > 0 /\ probe.position >= widthPx) => probe.date.time = maxDate
    /\ widthPx = 0 => probe.date.time = minDate
    /\ getDateFromPosition(probe.position + 1, widthPx).time >= probe.date.time

C28_TickStartNonNegative ==
  (lastOp = "tick" /\ emitted # <<>>) => startPx >= 0

\* C29: the play button flips isPlaying and nothing else: a click, in a drag
\* mode as well as in mode none, inverts isPlaying, leaves the window, the
\* drag mode and App's interval unchanged and emits nothing; a frame is
\* pending exactly when playing, before and after the click, so that a
\* second click without a tick in between restores the state before the first.
C29_ToggleFlipsOnly ==
  [][togglePlay =>
       /\ isPlaying' = ~isPlaying
       /\ animationFrame = isPlaying
       /\ animationFrame' = isPlaying'
       /\ emitted' = <<>>
       /\ UNCHANGED <<range, dragging, dateRange, dimensions, listeners>>
    ]_vars

\* playback was switched on and off again in the middle of a drag of the
\* start handle on the 800 px track
C29_Witness ==
  /\ lastOp = "toggle"
  /\ dragging = "start"
  /\ ~isPlaying
  /\ ~animationFrame
  /\ ticks = 0
  /\ widthPx = Px(800)
  /\ dateRange # <<>>
  /\ dateRange[1].start.time # defaultStartDate

\* C30: overlapping data loads leave no stale data: when no fetch is in
\* flight any more and none has failed, the features are the dataset filtered
\* by the current debouncedFilters, in whatever order the responses arrived.
C30_NoStaleFeatures ==
  (app.fetches = <<>> /\ ~app.failed) =>
    app.features = FilterFeatures(Dataset, app.debouncedFilters)

\* C31: selectedId and lastSelectedId are equal after every step, whatever the
\* order in which handleSelectFeature, handleBack and handleResetView are
\* called (they are both null initially), and so handleBack, which copies
\* lastSelectedId into selectedId, never changes selectedId.
C31_SelectedEqualsLast ==
  [][/\ app'.selectedId = app'.lastSelectedId
     /\ handleBack => app'.selectedId = app.selectedId]_vars

\* a feature selected from the sidebar is still selected after handleBack,
\* which has cleared shouldZoom
C31_Witness ==
  /\ app.selectedId # Null
  /\ app.lastSelectedId = app.selectedId
  /\ ~app.shouldZoom
  /\ ~app.resetView
  /\ sidebar.deps.selectedFeature # <<>>

\* the details have been left by the Back button and no feature has been
\* selected since: a feature is still selected, showDetails is false
BackPressed == ~sidebar.showDetails /\ selectedIdProp(app) # Null

\* a click on a feature of the map or on an event of the list
Selecting == \E id \in FeatureIds : onClick(id) \/ onSelectFeature(id)

\* C32: once the details have been left by the Back button, they stay hidden
\* and the list stays shown until the next selection: a step that is no
\* selection (a change of the date range or of the features, say) never
\* reopens them.
C32_BackStaysBack ==
  [][(BackPressed /\ ~Selecting) =>
       (~sidebar'.showDetails /\ sidebar'.listMounted)]_vars

\* C33: every selection opens the details: after a click on a feature of the
\* map or on an event of the list, also on the feature that was selected
\* before Back, the Sidebar shows the details of that feature.
C33_SelectionOpensDetails ==
  sidebar.clicked # Null =>
    /\ sidebar.showDetails
    /\ ~sidebar.listMounted
    /\ selectedFeature(app, dateRange) # <<>>
    /\ selectedFeature(app, dateRange)[1].id = sidebar.clicked

\* the filters the inputs of the area can produce
AreaFilters ==
  {FilterChange(FilterChange(NoFilters, "farea", "min", lo), "farea", "max", hi) :
     lo \in FilterValues, hi \in FilterValues}

\* C34: useDebounce: at most one timeout is pending, and it is the one of the
\* latest input (every change of the input cancels the timeout before it);
\* the output only changes to the value the input has held since its timeout
\* was set, so a value replaced during a burst is never output; and an input
\* that stops changing is the output in the end.
C34_Debounce ==
  /\ [][/\ Len(app'.handler) <= 1
        /\ (app'.handler # <<>> /\ app'.handler[1].isNew) =>
              app'.handler[1].value = filters'
        /\ app'.debouncedFilters # app.debouncedFilters =>
              (app'.debouncedFilters = filters /\ filters' = filters)]_vars
  /\ \A F \in AreaFilters :
       (filters = F) ~> (filters # F \/ app.debouncedFilters = F)

\* the minimum of the area has been typed and its timeout has fired: the
\* debounced filters are the new filters, and the timeout is gone
C34_Witness ==
  /\ app.debouncedFilters = filters
  /\ filters # NoFilters
  /\ app.handler = <<>>

\* the feature lies in the range App holds: start <= t <= end
InRange(f) ==
  /\ dateRange[1].start.time <= f.t
  /\ f.t <= dateRange[1].end.time

\* the positions of the loaded features that lie in the range
Kept == {i \in DOMAIN app.features : InRange(app.features[i])}

\* shown is made of the loaded features at the positions of Kept, each once
\* and in the order of the load
KeptInOrder(shown) ==
  /\ Len(shown) = Cardinality(Kept)
  /\ \A i \in Kept :
       shown[Cardinality({j \in Kept : j <= i})] = app.features[i]

\* C35: the features passed to the map and to the sidebar are exactly the
\* loaded features with start <= t <= end for the last emitted range, both
\* ends included, in the order of the load; all loaded features before any
\* range has been emitted; the RangeSlider always gets the unfiltered list.
C35_DateFilter ==
  LET props == Props(app, dateRange)
  IN  /\ props.RangeSlider = app.features
      /\ props.MapView = props.Sidebar
      /\ dateRange = <<>> => props.MapView = app.features
      /\ dateRange # <<>> => KeptInOrder(props.MapView)

\* a range has been emitted that ends at the time of a loaded feature, which
\* is kept, and leaves another loaded feature out
C35_Witness ==
  /\ dateRange # <<>>
  /\ \E i \in DOMAIN app.features : app.features[i].t = dateRange[1].end.time
  /\ \E i \in DOMAIN app.features : i \notin Kept
  /\ Kept # {}

\* shown is made of the elements of all at the positions of K, each once and
\* in the order of all
SelectedAt(shown, all, K) ==
  /\ Len(shown) = Cardinality(K)
  /\ \A i \in K : shown[Cardinality({j \in K : j <= i})] = all[i]

\* the attributes of the feature lie within the bounds that are defined
WithinBounds(feature, f) ==
  \A id \in FilterIds :
    /\ f[id].min # Undefined => feature[id] >= f[id].min[1]
    /\ f[id].max # Undefined => feature[id] <= f[id].max[1]

\* C36: a feature is kept by the attribute filters exactly when, for each of
\* farea, duration and meanfrp, its value is >= min when min is defined and
\* <= max when max is defined, the bounds included; the kept features stay in
\* order, and with no bound at all every parsed feature is kept.
C36_AttributeFilter ==
  evaluation.fn = "filter" =>
    LET features == evaluation.input.features
        f == evaluation.input.filters
    IN  /\ SelectedAt(evaluation.output, features,
                      {i \in DOMAIN features : WithinBounds(features[i], f)})
        /\ f = NoFilters => evaluation.output = features

\* a minimum and a maximum are set; a feature on the minimum is kept and a
\* feature below it is dropped
C36_Witness ==
  /\ evaluation.fn = "filter"
  /\ evaluation.input.filters["farea"].min = <<5>>
  /\ evaluation.input.filters["meanfrp"].max = <<5>>
  /\ Len(evaluation.input.features) = 2
  /\ evaluation.input.features[1].farea = 3
  /\ evaluation.input.features[2].farea = 5
  /\ evaluation.input.features[2].meanfrp = 5
  /\ Len(evaluation.output) = 1

\* C37: a failed load is contained: the features keep their value; and on
\* both paths of fetchData, the response and the error, the loading toast
\* made by that fetch is dismissed, so that no loading toast is left once
\* every fetch has settled.
C37_FailedLoadContained ==
  [][/\ \A i \in 1 .. MaxFetch :
          FetchFail(i) =>
            (app'.features = app.features /\ app.toastIds[i] \notin app'.visible)
     /\ \A i \in 1 .. MaxFetch :
          FetchResolve(i) => app.toastIds[i] \notin app'.visible
     /\ app'.fetches = <<>> => app'.visible = {}]_vars

\* features had been loaded when a later fetch failed: they are still there,
\* every fetch has settled and no loading toast is shown
C37_Witness ==
  /\ app.failed
  /\ app.features # <<>>
  /\ app.fetches = <<>>
  /\ app.visible = {}
  /\ app.debouncedFilters # NoFilters

\* two features of the API are the same event: same fireid, t and farea
SameEvent(f, g) == f.fireid = g.fireid /\ f.t = g.t /\ f.farea = g.farea

\* C38: the de-duplication of the API's features leaves no two features with
\* the same (fireid, t, farea); it keeps the first feature of each key and
\* drops only the later ones, in the order of the response.
C38_Dedup ==
  evaluation.fn = "dedup" =>
    LET features == evaluation.input
        out == evaluation.output
    IN  /\ \A i \in DOMAIN out : \A j \in DOMAIN out :
             SameEvent(out[i], out[j]) => i = j
        /\ SelectedAt(out, features,
             {i \in DOMAIN features :
                \A j \in 1 .. i - 1 : ~SameEvent(features[j], features[i])})

\* the first and the third feature are the same event with different
\* durations, the second is another event the digits of which read the same:
\* the first two are kept
C38_Witness ==
  /\ evaluation.fn = "dedup"
  /\ Len(evaluation.input) = 3
  /\ SameEvent(evaluation.input[1], evaluation.input[3])
  /\ evaluation.input[1] # evaluation.input[3]
  /\ evaluation.input[1].fireid = 1 /\ evaluation.input[1].t = 23
  /\ evaluation.input[2].fireid = 12 /\ evaluation.input[2].t = 3
  /\ evaluation.input[2].farea = evaluation.input[1].farea
  /\ evaluation.output = SubSeq(evaluation.input, 1, 2)

\* the groups of the list partition the features by fireid: every group holds
\* the features of its fireid only, and every feature lies in one group
GroupsPartition(features) ==
  /\ \A fireId \in FireIds(features) :
       LET events == groupedEvents(features, fireId)
       IN  events # <<>> /\ \A i \in DOMAIN events : events[i].fireid = fireId
  /\ \A i \in DOMAIN features :
       \E fireId \in FireIds(features) :
         \E j \in DOMAIN groupedEvents(features, fireId) :
           groupedEvents(features, fireId)[j] = features[i]

\* C39: the groups of the event list partition the features by fireid;
\* toggleGroup(g) flips the membership of g in expandedGroups and of g alone
\* (so that toggling twice restores the set); and selecting a feature, with
\* the list still shown afterwards, adds its group to expandedGroups without
\* collapsing any other group.
C39_Groups ==
  [][/\ GroupsPartition(Props(app', dateRange').Sidebar)
     /\ \A fireId \in FireIds(Dataset) :
          toggleGroup(fireId) =>
            /\ (fireId \in sidebar'.expandedGroups) =
                  (fireId \notin sidebar.expandedGroups)
            /\ sidebar'.expandedGroups \ {fireId} =
                  sidebar.expandedGroups \ {fireId}
     /\ \A id \in FeatureIds :
          ((onClick(id) \/ onSelectFeature(id)) /\ sidebar'.listMounted) =>
            (sidebar.expandedGroups \union {FeatureOf(id).fireid})
               \subseteq sidebar'.expandedGroups]_vars

\* the timestamps of the features of the fire of f among the evaluated ones
GroupTimes(f) ==
  {evaluation.input[i].t :
     i \in {j \in DOMAIN evaluation.input :
              evaluation.input[j].fireid = f.fireid}}

\* C40: for every feature rendered on the map normalizedTime lies in [0, 1];
\* within a fire group the features of the earliest timestamp get 0 and those
\* of the latest get 1, and all get 0 when the timestamps of the group are
\* all equal; the output holds exactly the input features, each once.
C40_NormalizedTime ==
  evaluation.fn = "normalize" =>
    LET features == evaluation.input
        out == evaluation.output
    IN  /\ \A j \in DOMAIN out :
             LET n == out[j].normalizedTime
                 times == GroupTimes(out[j])
                 earliest == \A t \in times : out[j].t <= t
                 latest == \A t \in times : out[j].t >= t
             IN  /\ n.den > 0 /\ 0 <= n.num /\ n.num <= n.den
                 /\ earliest => n.num = 0
                 /\ (latest /\ ~earliest) => n.num = n.den
                 /\ Cardinality(times) = 1 => n.num = 0
        /\ Len(out) = Len(features)
        /\ \A i \in DOMAIN features :
             \E j \in DOMAIN out :
               /\ out[j].id = i
               /\ out[j].fireid = features[i].fireid
               /\ out[j].t = features[i].t
               /\ \A k \in DOMAIN out : out[k].id = i => k = j

\* a fire with features at three times, the latest first in the list, next to
\* no other fire: the features come out with 1, 1/3 and 0
C40_Witness ==
  /\ evaluation.fn = "normalize"
  /\ Len(evaluation.input) = 3
  /\ evaluation.input[1].t = 40
  /\ evaluation.input[2].t = 20
  /\ evaluation.input[3].t = 10
  /\ \A i \in 1 .. 3 : evaluation.input[i].fireid = 2
  /\ evaluation.output[1].normalizedTime = Fraction(30, 30)
  /\ evaluation.output[2].normalizedTime = Fraction(10, 30)
  /\ evaluation.output[3].normalizedTime = Fraction(0, 30)

====
